---- MODULE Spec2Model ----
(***************************************************************************)
(* Model of handler.go: the HTTP transport adapter (ServeHTTP) with its    *)
(* path resolver (set), upload collection, operation normalisation and     *)
(* sequential batch execution.                                             *)
(*                                                                         *)
(* One request is handled per behaviour.  Go strings are sequences of      *)
(* one-character strings, so that strings.Split, the regular expression    *)
(* of set and strconv.Atoi are computed rather than assumed.               *)
(***************************************************************************)
EXTENDS Integers, Sequences, FiniteSets, TLC

\* longest JSON array (batch) a request body carries
MaxBatch == 3
\* total number of destination paths an upload map declares
MaxPaths == 2

-----------------------------------------------------------------------------
(* Dynamically typed values (interface{}): every value is [kind, val].     *)

Nil == [kind |-> "nil", val |-> <<>>]
NilMap == [kind |-> "nilmap", val |-> <<>>]
Str(s) == [kind |-> "string", val |-> s]
Num(n) == [kind |-> "float64", val |-> n]
Obj(f) == [kind |-> "map", val |-> f]
Arr(s) == [kind |-> "slice", val |-> s]
Chan == [kind |-> "chan", val |-> <<>>]
EmptyFcn == [k \in {} |-> Nil]
\* a request text that is the empty string, and one that is not JSON
Empty == [kind |-> "empty", val |-> <<>>]
Malformed == [kind |-> "malformed", val |-> <<>>]

\* File{File, Filename, Size} built at lines 162-166; one handle per form key
File(key) == [kind |-> "File", val |-> key]

\* Request{OperationName, Query, Variables} (Context is not modelled)
ZeroRequest == [OperationName |-> <<>>, Query |-> <<>>, Variables |-> NilMap]

kOperationName == <<"o","p","e","r","a","t","i","o","n","N","a","m","e">>
kQuery == <<"q","u","e","r","y">>
kVariables == <<"v","a","r","i","a","b","l","e","s">>

Digits == {"0","1","2","3","4","5","6","7","8","9"}
DigitVal == [d \in Digits |->
  CASE d = "0" -> 0 [] d = "1" -> 1 [] d = "2" -> 2 [] d = "3" -> 3
    [] d = "4" -> 4 [] d = "5" -> 5 [] d = "6" -> 6 [] d = "7" -> 7
    [] d = "8" -> 8 [] d = "9" -> 9]

-----------------------------------------------------------------------------
(* set: path parsing (lines 31-41) and the walk (lines 42-59).             *)

RECURSIVE Split(_, _)
\* strings.Split(s, sep) for a one-character separator
Split(s, sep) ==
  IF \A i \in 1..Len(s) : s[i] # sep THEN <<s>>
  ELSE LET i == CHOOSE j \in 1..Len(s) :
                  s[j] = sep /\ \A k \in 1..(j-1) : s[k] # sep
       IN <<SubSeq(s, 1, i-1)>> \o Split(SubSeq(s, i+1, Len(s)), sep)

\* regexp.MatchString(`\d+`, p): the expression is not anchored
IsNumber(p) == \E i \in 1..Len(p) : p[i] \in Digits

RECURSIVE DecimalValue(_)
DecimalValue(p) ==
  IF p = <<>> THEN 0
  ELSE 10 * DecimalValue(SubSeq(p, 1, Len(p)-1)) + DigitVal[p[Len(p)]]

\* index, _ := strconv.Atoi(p): 0 when p is not a decimal number
Atoi(p) ==
  IF p # <<>> /\ \A i \in 1..Len(p) : p[i] \in Digits
  THEN DecimalValue(p) ELSE 0

ParseParts(path) ==
  LET segs == Split(path, ".")
  IN [i \in 1..Len(segs) |->
        IF IsNumber(segs[i]) THEN [kind |-> "int", val |-> Atoi(segs[i])]
        ELSE [kind |-> "string", val |-> segs[i]]]

\* the value a failed type assertion or index expression leaves: a panic
Panic == [kind |-> "panic", val |-> <<>>]

RECURSIVE SetWalkDropSiblings(_, _, _)
\* a mutant of SetWalk: the last key assignment replaces the whole object
SetWalkDropSiblings(m, parts, v) ==
  LET p == Head(parts)
      last == Len(parts) = 1
  IN IF p.kind = "string"
     THEN IF m.kind # "map" THEN Panic
          ELSE IF last THEN Obj([k \in {p.val} |-> v])
          ELSE LET child == IF p.val \in DOMAIN m.val THEN m.val[p.val] ELSE Nil
                   r == SetWalkDropSiblings(child, Tail(parts), v)
               IN IF r = Panic THEN Panic
                  ELSE Obj([m.val EXCEPT ![p.val] = r])
     ELSE IF m.kind # "slice" \/ p.val < 0 \/ p.val >= Len(m.val) THEN Panic
          ELSE IF last THEN Arr([m.val EXCEPT ![p.val + 1] = v])
          ELSE LET r == SetWalkDropSiblings(m.val[p.val + 1], Tail(parts), v)
               IN IF r = Panic THEN Panic
                  ELSE Arr([m.val EXCEPT ![p.val + 1] = r])

RECURSIVE SetWalk(_, _, _)
\* The loop of lines 42-58 on the tree under cursor m.  Maps and slices are
\* references in Go, so the assignment at the last part is seen from the
\* root: the result is the root rebuilt with the assignment done, or Panic.
SetWalk(m, parts, v) ==
  LET p == Head(parts)
      last == Len(parts) = 1
  IN IF p.kind = "string"
     THEN IF m.kind # "map" THEN Panic
          ELSE IF last
          THEN Obj([k \in DOMAIN m.val \cup {p.val} |->
                      IF k = p.val THEN v ELSE m.val[k]])
          ELSE LET child == IF p.val \in DOMAIN m.val THEN m.val[p.val] ELSE Nil
                   r == SetWalk(child, Tail(parts), v)
               IN IF r = Panic THEN Panic
                  ELSE Obj([m.val EXCEPT ![p.val] = r])
     ELSE IF m.kind # "slice" \/ p.val < 0 \/ p.val >= Len(m.val) THEN Panic
          ELSE IF last THEN Arr([m.val EXCEPT ![p.val + 1] = v])
          ELSE LET r == SetWalk(m.val[p.val + 1], Tail(parts), v)
               IN IF r = Panic THEN Panic
                  ELSE Arr([m.val EXCEPT ![p.val + 1] = r])

\* set(v, m, path): regexp.MatchString cannot fail on a constant expression,
\* so the only outcomes are the mutated tree and a panic
set(v, m, path) == SetWalk(m, ParseParts(path), v)

-----------------------------------------------------------------------------
(* encoding/json as the handler uses it.  A request text is Empty,         *)
(* Malformed, or the JSON value it spells (JSON null is Nil).              *)

\* json.Unmarshal / Decoder.Decode into an interface{} that holds nil
UnmarshalAny(doc) ==
  IF doc.kind \in {"empty", "malformed"} THEN [err |-> TRUE, val |-> Nil]
  ELSE [err |-> FALSE, val |-> doc]

\* a mutant of UnmarshalMap: a value of the wrong JSON type is let through
UnmarshalMapLenient(doc, cur) ==
  CASE doc.kind = "map" -> [err |-> FALSE, val |-> doc]
    [] doc.kind \in {"empty", "malformed"} -> [err |-> TRUE, val |-> cur]
    [] OTHER -> [err |-> FALSE, val |-> cur]

\* json.Unmarshal into a map[string]interface{} holding cur: an object fills
\* the map, null is accepted and leaves it as it was, anything else fails
UnmarshalMap(doc, cur) ==
  CASE doc.kind = "map" -> [err |-> FALSE, val |-> doc]
    [] doc.kind = "nil" -> [err |-> FALSE, val |-> cur]
    [] OTHER -> [err |-> TRUE, val |-> cur]

\* json.Unmarshal into the empty map[string][]string of line 150
UnmarshalUploadsMap(doc) ==
  LET isList(x) == \/ x.kind = "nil"
                   \/ /\ x.kind = "slice"
                      /\ \A i \in 1..Len(x.val) : x.val[i].kind = "string"
      list(x) == IF x.kind = "nil" THEN <<>>
                 ELSE [i \in 1..Len(x.val) |-> x.val[i].val]
  IN CASE doc.kind = "nil" -> [err |-> FALSE, val |-> EmptyFcn]
       [] doc.kind = "map" /\ (\A k \in DOMAIN doc.val : isList(doc.val[k])) ->
            [err |-> FALSE, val |-> [k \in DOMAIN doc.val |-> list(doc.val[k])]]
       [] OTHER -> [err |-> TRUE, val |-> EmptyFcn]

\* json.Marshal fails on a value it cannot serialise (a channel, here)
MarshalErr(v) ==
  \/ v.kind = "chan"
  \/ v.kind = "slice" /\ \E i \in 1..Len(v.val) : v.val[i].kind = "chan"

\* json.NewEncoder(w).Encode(v): the value is marshalled whole, then written;
\* write is what the connection does with the bytes
Encode(v, write) == IF MarshalErr(v) THEN "marshal" ELSE write

WriteOutcomes == {"ok", "EPIPE", "EIO"}

-----------------------------------------------------------------------------
(* Normalisation of one decoded operation object.                          *)

\* lines 189-204 on data, the single decoded object
NormalizeSingle(data) ==
  [OperationName |->
     IF kOperationName \in DOMAIN data /\ data[kOperationName] # Nil
        /\ data[kOperationName].kind = "string"
     THEN data[kOperationName].val ELSE <<>>,
   Query |->
     IF kQuery \in DOMAIN data /\ data[kQuery] # Nil
        /\ data[kQuery].kind = "string"
     THEN data[kQuery].val ELSE <<>>,
   Variables |->
     IF kVariables \in DOMAIN data /\ data[kVariables] # Nil
        /\ data[kVariables].kind = "map"
     THEN data[kVariables] ELSE NilMap]

\* lines 216-231 on data, one element of the batch
NormalizeElement(data) ==
  [OperationName |->
     IF kOperationName \in DOMAIN data /\ data[kOperationName].kind = "string"
     THEN data[kOperationName].val ELSE <<>>,
   Query |->
     IF kQuery \in DOMAIN data /\ data[kQuery].kind = "string"
     THEN data[kQuery].val ELSE <<>>,
   Variables |->
     IF kVariables \in DOMAIN data /\ data[kVariables].kind = "map"
     THEN data[kVariables] ELSE NilMap]

\* a mutant of BatchStore: results are stored from the far end
BatchStoreReversed(result, index, r) ==
  [result EXCEPT ![Len(result) - index] = r]

\* result[index] = self.Executor(&request), line 234 (index counts from 0)
BatchStore(result, index, r) == [result EXCEPT ![index + 1] = r]

-----------------------------------------------------------------------------
(* The requests the handler is run on.                                     *)

Absent == [kind |-> "absent", val |-> <<>>]

\* a JSON object with the three operation fields, each possibly absent
MkObj(name, query, variables) ==
  Obj([k \in {x \in {kOperationName} : name # Absent}
         \cup {x \in {kQuery} : query # Absent}
         \cup {x \in {kVariables} : variables # Absent} |->
       CASE k = kOperationName -> name
         [] k = kQuery -> query
         [] k = kVariables -> variables])

SomeVars == Obj([k \in {<<"a">>} |-> Num(1)])

SingleObjects ==
  {MkObj(n, q, v) :
     n \in {Absent, Nil, Str(<<"n">>), Num(1)},
     q \in {Absent, Str(<<"q">>)},
     v \in {Absent, Nil, Obj(EmptyFcn), SomeVars, Arr(<<>>)}}

BatchElems ==
  {MkObj(Str(<<"n">>), Str(<<"q">>), SomeVars),
   MkObj(Absent, Str(<<"p">>), Absent),
   Num(5)}

Batches == {Arr(s) : s \in UNION {[1..n -> BatchElems] : n \in 0..MaxBatch}}

Bodies == {Malformed, Nil, Str(<<"s">>)} \cup SingleObjects \cup Batches

FieldF == <<"f">>
FieldG == <<"g">>
FieldNames == {FieldF, FieldG}

Dot == <<".">>
\* destination paths a client may declare
PathSet ==
  {kVariables \o Dot \o <<"a">>,
   kVariables \o Dot \o <<"b">>,
   kVariables \o Dot \o <<"f","1">>,
   kVariables,
   kVariables \o Dot \o <<"l">> \o Dot \o <<"1">>,
   kVariables \o Dot \o <<"z">> \o Dot \o <<"a">>,
   <<"0">> \o Dot \o kVariables \o Dot \o <<"a">>,
   <<"a","0">> \o Dot \o kVariables \o Dot \o <<"a">>}

PathLists(n) == [1..n -> PathSet]

\* upload maps: form key -> list of paths, at most MaxPaths paths in all
UploadMaps ==
  {EmptyFcn}
  \cup UNION {{[k \in {key} |-> ps] : ps \in PathLists(n), key \in FieldNames} :
                n \in 0..MaxPaths}
  \cup UNION {{[k \in FieldNames |-> IF k = FieldF THEN ps ELSE qs] :
                 ps \in PathLists(ij[1]), qs \in PathLists(ij[2])} :
                ij \in {x \in (0..MaxPaths) \X (0..MaxPaths) :
                          x[1] + x[2] <= MaxPaths}}

MapDoc(m) ==
  Obj([k \in DOMAIN m |-> Arr([i \in 1..Len(m[k]) |-> Str(m[k][i])])])

MapDocs ==
  {Empty, Malformed, Nil, Arr(<<>>), Obj([k \in {FieldF} |-> Str(kVariables)])}
  \cup {MapDoc(m) : m \in UploadMaps}

SingleOps ==
  Obj([k \in {kQuery, kVariables} |->
        IF k = kQuery THEN Str(<<"q">>)
        ELSE Obj([j \in {<<"a">>, <<"b">>, <<"f","1">>, <<"l">>} |->
                   IF j = <<"l">> THEN Arr(<<Nil, Nil>>) ELSE Nil])])

BatchOps ==
  Arr(<<Obj([k \in {kQuery, kVariables} |->
              IF k = kQuery THEN Str(<<"q">>)
              ELSE Obj([j \in {<<"a">>} |-> Nil])])>>)

OpsDocs == {Empty, Nil, SingleOps, BatchOps}

NoRequest ==
  [method |-> "", header |-> <<"">>, ContentLength |-> 0, body |-> Empty,
   query |-> <<>>, variables |-> Empty, operationName |-> <<>>,
   parseErr |-> "none", map |-> Empty, operations |-> Empty, files |-> {}]

GetRequests ==
  {[NoRequest EXCEPT !.method = "GET", !.query = q, !.variables = v,
                     !.operationName = n] :
     q \in {<<>>, <<"q">>},
     v \in {Empty, Malformed, Nil, Obj(EmptyFcn), SomeVars, Arr(<<>>),
            Str(<<"s">>)},
     n \in {<<>>, <<"n">>}}

\* r.ContentLength is the declared length, -1 when it is unknown (chunked)
BodyRequests ==
  {[NoRequest EXCEPT !.method = "POST", !.header = h, !.ContentLength = 0] :
     h \in {<<"application/json">>, <<"">>}}
  \cup
  {[NoRequest EXCEPT !.method = "POST", !.header = h, !.ContentLength = n,
                     !.body = b] :
     h \in {<<"application/json">>, <<"text/plain", " charset=utf-8">>,
            <<"application/x-www-form-urlencoded">>},
     n \in {-1, 1},
     b \in Bodies}

\* What ParseMultipartForm leaves: its error, the form values and the file
\* parts.  A failed parse leaves no file part, and of the form only what the
\* URL query carries.
MultipartRequests ==
  {[NoRequest EXCEPT !.method = "POST",
                     !.header = <<"multipart/form-data", " boundary=x">>,
                     !.ContentLength = 1, !.map = m, !.operations = o,
                     !.files = fs] :
     m \in MapDocs,
     o \in OpsDocs,
     fs \in SUBSET FieldNames}
  \cup
  {[NoRequest EXCEPT !.method = "POST",
                     !.header = <<"multipart/form-data", " boundary=x">>,
                     !.ContentLength = 1, !.parseErr = e, !.map = m,
                     !.operations = o] :
     e \in {"EPIPE", "EIO"},
     m \in {Empty, Nil, MapDoc(EmptyFcn),
            MapDoc([k \in {FieldF} |-> <<kVariables \o Dot \o <<"a">>>>])},
     o \in OpsDocs}

Requests ==
  GetRequests \cup BodyRequests \cup MultipartRequests
  \cup {[NoRequest EXCEPT !.method = "PUT"]}

\* what the execution backend may return
Results == {Str(<<"1">>), Obj(EmptyFcn), Chan}

-----------------------------------------------------------------------------
VARIABLES
  req,         \* the inbound *http.Request
  pc,          \* position in ServeHTTP
  operations,  \* var operations interface{}
  uploads,     \* map[File][]string
  pending,     \* keys of uploads the range of line 179 has not yet visited
  cur,         \* the entry the range of line 179 is at (<<>>: none)
  idx,         \* position of the range of line 180 in cur's paths
  parts,       \* set's parts, as of its last call
  request,     \* the Request being built / handed to the Executor
  result,      \* the batch's result slice
  index,       \* the batch loop's index
  calls,       \* the Executor's invocations so far: request and returned value
  status,      \* the status code written to w (0: none written by the handler)
  body,        \* the body written to w
  panicked     \* where the handler panicked ("": it did not)

vars == <<req, pc, operations, uploads, pending, cur, idx, parts, request,
          result, index, calls, status, body, panicked>>

NoBody == [kind |-> "none", val |-> <<>>]
Text(msg) == [kind |-> "text", val |-> msg]
Json(v) == [kind |-> "json", val |-> v]
Truncated == [kind |-> "truncated", val |-> <<>>]

Init ==
  /\ req \in Requests
  /\ pc = "start"
  /\ operations = Nil
  /\ uploads = EmptyFcn
  /\ pending = {}
  /\ cur = <<>>
  /\ idx = 1
  /\ parts = <<>>
  /\ request = ZeroRequest
  /\ result = <<>>
  /\ index = 0
  /\ calls = <<>>
  /\ status = 0
  /\ body = NoBody
  /\ panicked = ""

\* strings.SplitN(r.Header.Get("Content-Type"), ";", 2)[0]; the header is kept
\* as its pieces between semicolons
contentType == Head(req.header)

-----------------------------------------------------------------------------
(* ServeHTTP, step by step.                                                *)

\* http.Error(w, message, http.StatusBadRequest); return
BadRequest(message) ==
  /\ status' = 400
  /\ body' = Text(message)
  /\ pc' = "done"

\* panic(err), or a run-time panic: the handler is left without a response
PanicAt(where) ==
  /\ panicked' = where
  /\ pc' = "done"

\* lines 125-129 and 207-211: Encode the Executor's value; on an error answer
\* 400.  Once Encode has written to w the header is out with status 200 and
\* http.Error can no longer change it.
EncodeSingle(v, write, message) ==
  LET e == Encode(v, write)
  IN CASE e = "ok" -> status' = 200 /\ body' = Json(v) /\ pc' = "done"
       [] e = "marshal" -> BadRequest(message)
       [] OTHER -> status' = 200 /\ body' = Truncated /\ pc' = "done"

\* lines 243-245 for a method that is neither GET nor POST: nothing is done
OtherMethod ==
  /\ pc = "start"
  /\ req.method \notin {"GET", "POST"}
  /\ pc' = "done"
  /\ UNCHANGED <<req, operations, uploads, pending, cur, idx, parts, request,
                 result, index, calls, status, body, panicked>>

\* lines 96-123
GetDecode ==
  /\ pc = "start"
  /\ req.method = "GET"
  /\ IF Len(req.query) = 0
     THEN BadRequest("Missing query") /\ UNCHANGED request
     ELSE IF req.variables = Empty
     THEN /\ request' = [OperationName |-> req.operationName,
                         Query |-> req.query,
                         Variables |-> Obj(EmptyFcn)]
          /\ pc' = "get_exec"
          /\ UNCHANGED <<status, body>>
     ELSE LET u == UnmarshalMap(req.variables, NilMap)
          IN IF u.err
             THEN BadRequest("Bad variables") /\ UNCHANGED request
             ELSE /\ request' = [OperationName |-> req.operationName,
                                 Query |-> req.query,
                                 Variables |-> u.val]
                  /\ pc' = "get_exec"
                  /\ UNCHANGED <<status, body>>
  /\ UNCHANGED <<req, operations, uploads, pending, cur, idx, parts, result,
                 index, calls, panicked>>

\* lines 124-129
GetExecute ==
  /\ pc = "get_exec"
  /\ \E r \in Results, write \in WriteOutcomes :
       /\ calls' = Append(calls, [request |-> request, result |-> r])
       /\ EncodeSingle(r, write, "Bad operation name")
  /\ UNCHANGED <<req, operations, uploads, pending, cur, idx, parts, request,
                 result, index, panicked>>

\* lines 134-141
DecodeJSONBody ==
  /\ pc = "start"
  /\ req.method = "POST"
  /\ contentType \in {"text/plain", "application/json"}
  /\ IF req.ContentLength > 0
     THEN LET u == UnmarshalAny(req.body)
          IN IF u.err
             THEN BadRequest("JSON syntax error") /\ UNCHANGED operations
             ELSE /\ operations' = u.val
                  /\ pc' = "normalize"
                  /\ UNCHANGED <<status, body>>
     ELSE /\ pc' = "normalize"
          /\ UNCHANGED <<operations, status, body>>
  /\ UNCHANGED <<req, uploads, pending, cur, idx, parts, request, result,
                 index, calls, panicked>>

\* the switch of line 133 has no default: any other content type decodes
\* nothing
SkipDecode ==
  /\ pc = "start"
  /\ req.method = "POST"
  /\ contentType \notin {"text/plain", "application/json", "multipart/form-data"}
  /\ pc' = "normalize"
  /\ UNCHANGED <<req, operations, uploads, pending, cur, idx, parts, request,
                 result, index, calls, status, body, panicked>>

\* errors.Is(err, syscall.EPIPE), line 83
IsEPIPE(err) == err = "EPIPE"

\* lines 143-146 with errHandler: a broken pipe is swallowed and the handler
\* goes on, any other error panics
ParseMultipartForm ==
  /\ pc = "start"
  /\ req.method = "POST"
  /\ contentType = "multipart/form-data"
  /\ IF req.parseErr = "none" \/ IsEPIPE(req.parseErr)
     THEN pc' = "collect" /\ UNCHANGED panicked
     ELSE PanicAt("ParseMultipartForm")
  /\ UNCHANGED <<req, operations, uploads, pending, cur, idx, parts, request,
                 result, index, calls, status, body>>

\* a mutant of FormFileErr: a key without a file part is passed over
FormFileErrNever(key) == FALSE

\* r.FormFile(key) fails when the form has no file part under key
FormFileErr(key) == key \notin req.files

\* lines 148-169
CollectUploads ==
  /\ pc = "collect"
  /\ LET u == UnmarshalUploadsMap(req.map)
     IN IF u.err \/ \E key \in DOMAIN u.val : FormFileErr(key)
        THEN BadRequest("JSON syntax error") /\ UNCHANGED uploads
        ELSE /\ uploads' = [f \in {File(key) : key \in DOMAIN u.val} |->
                              u.val[f.val]]
             /\ pc' = "decode_ops"
             /\ UNCHANGED <<status, body>>
  /\ UNCHANGED <<req, operations, pending, cur, idx, parts, request, result,
                 index, calls, panicked>>

\* lines 171-176; the range of line 179 then starts over all of uploads
DecodeOperations ==
  /\ pc = "decode_ops"
  /\ LET u == UnmarshalAny(req.operations)
     IN IF u.err
        THEN BadRequest("JSON syntax error") /\ UNCHANGED <<operations, pending>>
        ELSE /\ operations' = u.val
             /\ pending' = DOMAIN uploads
             /\ pc' = "splice"
             /\ UNCHANGED <<status, body>>
  /\ UNCHANGED <<req, uploads, cur, idx, parts, request, result, index, calls,
                 panicked>>

EntryDone == IF cur = <<>> THEN TRUE ELSE idx > Len(uploads[cur[1]])

\* line 179: the range over the map takes the entries in an unspecified order
SplicePick ==
  /\ pc = "splice"
  /\ EntryDone
  /\ \E file \in pending :
       /\ cur' = <<file>>
       /\ pending' = pending \ {file}
  /\ idx' = 1
  /\ UNCHANGED <<req, pc, operations, uploads, parts, request, result, index,
                 calls, status, body, panicked>>

\* lines 180-184: one call of set; it returns no error, it panics
SpliceSet ==
  /\ pc = "splice"
  /\ ~EntryDone
  /\ LET path == uploads[cur[1]][idx]
         r == set(cur[1], operations, path)
     IN /\ parts' = ParseParts(path)
        /\ IF r = Panic
           THEN PanicAt("set") /\ UNCHANGED <<operations, idx>>
           ELSE operations' = r /\ idx' = idx + 1 /\ UNCHANGED <<pc, panicked>>
  /\ UNCHANGED <<req, uploads, pending, cur, request, result, index, calls,
                 status, body>>

\* the range of line 179 is over
SpliceDone ==
  /\ pc = "splice"
  /\ EntryDone
  /\ pending = {}
  /\ pc' = "normalize"
  /\ UNCHANGED <<req, operations, uploads, pending, cur, idx, parts, request,
                 result, index, calls, status, body, panicked>>

\* lines 188-211
ExecuteSingle ==
  /\ pc = "normalize"
  /\ operations.kind = "map"
  /\ request' = NormalizeSingle(operations.val)
  /\ \E r \in Results, write \in WriteOutcomes :
       /\ calls' = Append(calls, [request |-> request', result |-> r])
       /\ EncodeSingle(r, write, "JSON syntax error")
  /\ UNCHANGED <<req, operations, uploads, pending, cur, idx, parts, result,
                 index, panicked>>

\* lines 212-213
BatchEnter ==
  /\ pc = "normalize"
  /\ operations.kind = "slice"
  /\ result' = [i \in 1..Len(operations.val) |-> Nil]
  /\ index' = 0
  /\ pc' = "batch"
  /\ UNCHANGED <<req, operations, uploads, pending, cur, idx, parts, request,
                 calls, status, body, panicked>>

\* lines 214-235, one iteration: the type assertion of line 215 panics on an
\* element that is no object
BatchStep ==
  /\ pc = "batch"
  /\ index < Len(operations.val)
  /\ LET operation == operations.val[index + 1]
     IN IF operation.kind # "map"
        THEN PanicAt("operation.(map[string]interface{})")
             /\ UNCHANGED <<request, result, index, calls>>
        ELSE /\ request' = NormalizeElement(operation.val)
             /\ \E r \in Results :
                  /\ calls' = Append(calls, [request |-> request', result |-> r])
                  /\ result' = BatchStore(result, index, r)
             /\ index' = index + 1
             /\ UNCHANGED <<pc, panicked>>
  /\ UNCHANGED <<req, operations, uploads, pending, cur, idx, parts, status,
                 body>>

\* lines 236-238 with errHandler
BatchEncode ==
  /\ pc = "batch"
  /\ index = Len(operations.val)
  /\ \E write \in WriteOutcomes :
       LET e == Encode(Arr(result), write)
       IN CASE e = "ok" ->
                 status' = 200 /\ body' = Json(Arr(result)) /\ pc' = "done"
                 /\ UNCHANGED panicked
            [] IsEPIPE(e) ->
                 status' = 200 /\ body' = Truncated /\ pc' = "done"
                 /\ UNCHANGED panicked
            [] OTHER -> PanicAt("Encode") /\ UNCHANGED <<status, body>>
  /\ UNCHANGED <<req, operations, uploads, pending, cur, idx, parts, request,
                 result, index, calls>>

\* lines 239-241
Unsupported ==
  /\ pc = "normalize"
  /\ operations.kind \notin {"map", "slice"}
  /\ status' = 400
  /\ pc' = "done"
  /\ UNCHANGED <<req, operations, uploads, pending, cur, idx, parts, request,
                 result, index, calls, body, panicked>>

Next ==
  \/ OtherMethod
  \/ GetDecode
  \/ GetExecute
  \/ DecodeJSONBody
  \/ SkipDecode
  \/ ParseMultipartForm
  \/ CollectUploads
  \/ DecodeOperations
  \/ SplicePick
  \/ SpliceSet
  \/ SpliceDone
  \/ ExecuteSingle
  \/ BatchEnter
  \/ BatchStep
  \/ BatchEncode
  \/ Unsupported

Spec == Init /\ [][Next]_vars

-----------------------------------------------------------------------------
(* What the properties are stated in: the path syntax and tree addressing  *)
(* of the specification, and the request as it was received.               *)

\* a segment is an index segment iff it matches ^\d+$
AllDigits(p) == p # <<>> /\ \A i \in 1..Len(p) : p[i] \in Digits

Segments(path) ==
  LET segs == Split(path, ".")
  IN [i \in 1..Len(segs) |->
        IF AllDigits(segs[i]) THEN [kind |-> "int", val |-> DecimalValue(segs[i])]
        ELSE [kind |-> "string", val |-> segs[i]]]

Missing == [kind |-> "missing", val |-> <<>>]

RECURSIVE NodeAt(_, _)
\* the node of tree that the segments address, Missing when there is none
NodeAt(tree, segs) ==
  IF segs = <<>> THEN tree
  ELSE LET p == Head(segs)
       IN IF p.kind = "string"
          THEN IF tree.kind = "map" /\ p.val \in DOMAIN tree.val
               THEN NodeAt(tree.val[p.val], Tail(segs)) ELSE Missing
          ELSE IF tree.kind = "slice" /\ p.val < Len(tree.val)
               THEN NodeAt(tree.val[p.val + 1], Tail(segs)) ELSE Missing

RECURSIVE IntermediateMismatch(_, _)
\* some segment before the last meets a node of the wrong kind, an index past
\* the end, or a key that is not there
IntermediateMismatch(tree, segs) ==
  IF Len(segs) <= 1 THEN FALSE
  ELSE LET p == Head(segs)
       IN IF p.kind = "string"
          THEN IF tree.kind = "map" /\ p.val \in DOMAIN tree.val
               THEN IntermediateMismatch(tree.val[p.val], Tail(segs)) ELSE TRUE
          ELSE IF tree.kind = "slice" /\ p.val < Len(tree.val)
               THEN IntermediateMismatch(tree.val[p.val + 1], Tail(segs))
               ELSE TRUE

IsPrefix(s, t) == Len(s) <= Len(t) /\ SubSeq(t, 1, Len(s)) = s

IsMultipart == req.method = "POST" /\ contentType = "multipart/form-data"

\* the upload map and the operations tree as the client sent them
SentMap == UnmarshalUploadsMap(req.map)
SentOperations == UnmarshalAny(req.operations)

\* the request gets as far as the splicing loop
SpliceReached ==
  /\ IsMultipart
  /\ req.parseErr \in {"none", "EPIPE"}
  /\ ~SentMap.err
  /\ \A key \in DOMAIN SentMap.val : key \in req.files
  /\ ~SentOperations.err

\* the splicing loop is over: it ran to its end or set panicked
AfterSplice == SpliceReached /\ pc \in {"normalize", "batch", "done"}

\* a field of a decoded operation object: its value when it is there with the
\* JSON type wanted, default otherwise
FieldOr(data, key, kind, default) ==
  IF key \in DOMAIN data
  THEN IF data[key].kind = kind THEN data[key] ELSE default
  ELSE default

RECURSIVE SpliceEntry(_, _, _)
\* the paths of one entry spliced in their order
SpliceEntry(tree, file, paths) ==
  IF paths = <<>> \/ tree = Panic THEN tree
  ELSE SpliceEntry(set(file, tree, Head(paths)), file, Tail(paths))

RECURSIVE SpliceInOrder(_, _, _)
\* all entries spliced in one fixed order of the files
SpliceInOrder(tree, ups, files) ==
  IF files = {} \/ tree = Panic THEN tree
  ELSE LET f == CHOOSE x \in files : TRUE
       IN SpliceInOrder(SpliceEntry(tree, f, ups[f]), ups, files \ {f})

\* how the splicing step came out: the tree, or the fact that it failed
SpliceOutcome == IF panicked = "set" THEN Panic ELSE operations

-----------------------------------------------------------------------------
(* C1: fan-out.  For an upload-map entry {field: [p1, p2]} whose decoded   *)
(* operations tree holds null at p1 and at p2, after the splicing step the *)
(* nodes at p1 and p2 both hold that field's file handle.  Stated for an   *)
(* upload map with that single entry, where no other entry interferes.     *)
C1_FanOut ==
  (AfterSplice /\ Cardinality(DOMAIN uploads) = 1) =>
    \A f \in DOMAIN uploads :
      \A i, j \in 1..Len(uploads[f]) :
        LET p1 == Segments(uploads[f][i])
            p2 == Segments(uploads[f][j])
        IN (i < j /\ NodeAt(SentOperations.val, p1) = Nil
                  /\ NodeAt(SentOperations.val, p2) = Nil)
           => NodeAt(operations, p1) = f /\ NodeAt(operations, p2) = f

(* C2: path parsing in set.  A segment is taken as an array index iff it   *)
(* consists of decimal digits only; any other segment is an object key     *)
(* with its text unchanged: after a call of set, its parts are the         *)
(* segments of the path it was called on.                                  *)
C2_SegmentKinds ==
  (pc \in {"splice", "done"} /\ cur # <<>>) =>
    /\ panicked = "set" => parts = Segments(uploads[cur[1]][idx])
    /\ (panicked = "" /\ idx > 1) => parts = Segments(uploads[cur[1]][idx - 1])

(* C3: splicing at a path whose intermediate segment does not match the    *)
(* tree's shape ends in a failure of the request and the backend is not    *)
(* invoked.  Stated for an upload map that declares one path, so that the  *)
(* tree set walks is the tree that was sent.                               *)
C3_MismatchFails ==
  (SpliceReached
   /\ \E key \in DOMAIN SentMap.val :
        /\ DOMAIN SentMap.val = {key}
        /\ Len(SentMap.val[key]) = 1
        /\ IntermediateMismatch(SentOperations.val, Segments(SentMap.val[key][1])))
  => /\ calls = <<>>
     /\ pc = "done" => panicked = "set"

MissingFilePart ==
  /\ IsMultipart
  /\ ~SentMap.err
  /\ \E key \in DOMAIN SentMap.val : key \notin req.files

C7_SingleFields ==
  (req.method = "POST" /\ operations.kind = "map" /\ Len(calls) = 1)
  => LET data == operations.val
         r == calls[1].request
     IN /\ r.OperationName = FieldOr(data, kOperationName, "string", Str(<<>>)).val
        /\ r.Query = FieldOr(data, kQuery, "string", Str(<<>>)).val
        /\ kVariables \in DOMAIN data /\ data[kVariables].kind = "map"
             => r.Variables = data[kVariables]
        /\ kVariables \notin DOMAIN data => r.Variables = Obj(EmptyFcn)

(* C8: in every handling of a request, if a 4xx response is written then   *)
(* the backend was not invoked at any point during that request.           *)
C8_ClientErrorNoExecution ==
  status \in 400..499 => calls = <<>>

(* C9: when the decoded value is a JSON array with an element that is not  *)
(* an object, the request fails before the backend has been invoked for    *)
(* any element of the batch.                                               *)
C9_BadElementNoExecution ==
  (/\ operations.kind = "slice"
   /\ \E i \in 1..Len(operations.val) : operations.val[i].kind # "map")
  => /\ calls = <<>>
     /\ pc = "done" => panicked # ""

\* the paths the upload map declares, each with its entry and position
Declared ==
  {<<f, i>> : f \in DOMAIN uploads, i \in 1..MaxPaths + 1} \cap
  UNION {{<<f, i>> : i \in 1..Len(uploads[f])} : f \in DOMAIN uploads}

(* C10, as claimed: with pairwise distinct declared destination paths, the *)
(* outcome of the splicing step (the resulting tree, or the fact that it   *)
(* fails) is the same for every order in which the entries are processed,  *)
(* also when one declared path is a prefix of another.                     *)
C10_OrderIndependentDistinct ==
  (AfterSplice
   /\ \A d, e \in Declared :
        d # e => uploads[d[1]][d[2]] # uploads[e[1]][e[2]])
  => SpliceOutcome = SpliceInOrder(SentOperations.val, uploads, DOMAIN uploads)

(* C10, amended: when no path of one entry addresses, as set parses the    *)
(* paths, the same node as a path of another entry or a node above it,     *)
(* the outcome of the splicing step (the resulting tree, or the fact that  *)
(* it fails) is the same for every order in which the entries are          *)
(* processed.                                                              *)
C10_OrderIndependent ==
  (AfterSplice
   /\ \A d, e \in Declared :
        d[1] # e[1] => ~IsPrefix(ParseParts(uploads[d[1]][d[2]]),
                                 ParseParts(uploads[e[1]][e[2]])))
  => SpliceOutcome = SpliceInOrder(SentOperations.val, uploads, DOMAIN uploads)

C10_Witness ==
  /\ AfterSplice
  /\ pc = "done"
  /\ panicked = ""
  /\ Cardinality(DOMAIN uploads) = 2
  /\ \A f \in DOMAIN uploads : Len(uploads[f]) = 1
  /\ \A d, e \in Declared :
        d[1] # e[1] => ~IsPrefix(ParseParts(uploads[d[1]][d[2]]),
                                 ParseParts(uploads[e[1]][e[2]]))
  /\ \E f \in DOMAIN uploads :
       cur = <<f>> /\ f = (CHOOSE x \in DOMAIN uploads : TRUE)
                   /\ NodeAt(operations, ParseParts(uploads[f][1])) = f

====
